---- MODULE Spec2Model ----
(***************************************************************************)
(* Model of the metadata ceremony of kaprien/cli/admin/ceremony.py.        *)
(*                                                                         *)
(* The ceremony is one sequential command.  Every action below is the      *)
(* code between two operator prompts (or network calls): it consumes the   *)
(* answer to the prompt the program is blocked on, runs the code up to     *)
(* the next prompt and records where the program blocks next.              *)
(*                                                                         *)
(* Strings that the code inspects are sequences of one-character strings.  *)
(* A key file is a pair <<directory, name>>.                               *)
(***************************************************************************)
EXTENDS Integers, Sequences, FiniteSets, TLC

\* ------------------------------------------------------------------ bounds

\* The operator gives at most this many answers that take the ceremony away
\* from the cooperative run: a value other than the prompt's default, a
\* loadable, unused key file other than the next one in line, or a declined
\* summary in the review.  Keys that fail to load, duplicate keys and
\* retries are not counted: they are always possible.
MaxCustomAnswers == 1

\* ------------------------------------------------------- static tables

\* class Roles(Enum), in declaration order (the order of SETTINGS.roles).
Roles == <<"root", "targets", "snapshot", "timestamp", "bin", "bins">>

RoleNames == {Roles[i] : i \in 1..Len(Roles)}

RoleSettings(expiration, threshold, keys, offline_keys) ==
    [expiration |-> expiration, threshold |-> threshold, keys |-> keys,
     offline_keys |-> offline_keys]

default_settings ==
    [r \in RoleNames |->
        CASE r = "root"      -> RoleSettings(356, 1, 2, TRUE)
          [] r = "targets"   -> RoleSettings(365, 1, 2, TRUE)
          [] r = "snapshot"  -> RoleSettings(1, 1, 1, FALSE)
          [] r = "timestamp" -> RoleSettings(1, 1, 1, FALSE)
          [] r = "bin"       -> RoleSettings(365, 1, 1, TRUE)
          [] r = "bins"      -> RoleSettings(1, 1, 1, FALSE)]

\* Optional[...] fields: None is the empty sequence, a value v is <<v>>.
None == <<>>

Some(v) == <<v>>

\* RolesKeysInput(): the fresh per-role settings object.  keys is the
\* insertion-ordered dict, kept as the sequence of its items.
RolesKeysInput ==
    [expiration |-> 1, num_of_keys |-> 1, threshold |-> 1, keys |-> <<>>,
     offline_keys |-> TRUE, paths |-> None, number_hash_prefixes |-> None]

\* ------------------------------------------------------- operator inputs

\* Integers typed at the IntPrompts (IntPrompt accepts any integer).
ExpirationInputs == {30}

NumOfKeysInputs == {-1, 0, 1, 3}

ThresholdInputs == {0, 2, 3}

HashPrefixInputs == {16}

\* Base URLs typed at click.prompt (which insists on a non-empty answer).
CooperativeUrl == <<"h", "/", "d">>

UrlInputs == {<<"h", "/", "d", "/">>}

\* Answers to the delegated paths prompt; the default is "*, */*".
DefaultPaths == <<"*", ",", " ", "*", "/", "*">>

PathsInputs == {<<" ", "*", "/", "*", " ", ",", "*">>}

\* ------------------------------------------------------- string helpers

\* str.endswith("/")
EndsWithSlash(s) == Len(s) > 0 /\ s[Len(s)] = "/"

RECURSIVE LStrip(_)
LStrip(s) == IF s # <<>> /\ Head(s) = " " THEN LStrip(Tail(s)) ELSE s

RECURSIVE RStrip(_)
RStrip(s) ==
    IF s # <<>> /\ s[Len(s)] = " " THEN RStrip(SubSeq(s, 1, Len(s) - 1)) ELSE s

\* str.strip()
Strip(s) == RStrip(LStrip(s))

\* str.split(","): the pieces between commas, empty pieces kept.
RECURSIVE SplitComma(_, _)
SplitComma(s, piece) ==
    IF s = <<>> THEN <<piece>>
    ELSE IF Head(s) = "," THEN <<piece>> \o SplitComma(Tail(s), <<>>)
    ELSE SplitComma(Tail(s), Append(piece, Head(s)))

\* [path.strip() for path in input_paths.split(",")]
DelegatePaths(input_paths) ==
    LET pieces == SplitComma(input_paths, <<>>)
    IN  [i \in 1..Len(pieces) |-> Strip(pieces[i])]

\* ------------------------------------------------------------ key files

\* The key files of the operator.  Directory 1 holds key n in file n,
\* directory 2 holds key n + 1 in file n (so equal file names do not mean
\* equal keys, and equal keys do not mean equal file names); any other
\* directory does not exist.
FileExists(filepath) == filepath[1] \in {1, 2}

KeyIdOfFile(filepath) == IF filepath[1] = 1 THEN filepath[2] ELSE filepath[2] + 1

PasswordOfFile(filepath) == <<"pw", filepath[1], filepath[2]>>

WrongPassword == <<"pw", 0, 0>>

\* securesystemslib's import_ed25519_privatekey_from_file: the key dict, or
\* the exception it raises.
import_ed25519_privatekey_from_file(filepath, password) ==
    IF ~FileExists(filepath) THEN [raised |-> "StorageError"]
    ELSE IF password # PasswordOfFile(filepath) THEN [raised |-> "CryptoError"]
    ELSE [raised |-> "no",
          value |-> [keytype |-> "ed25519", keyid |-> KeyIdOfFile(filepath)]]

\* _load_key: Key(key=...) or Key(error=...)
_load_key(filepath, password) ==
    LET got == import_ed25519_privatekey_from_file(filepath, password)
    IN  IF got.raised = "no" THEN [key |-> Some(got.value), error |-> None]
        ELSE IF got.raised = "CryptoError"
             THEN [key |-> None, error |-> Some("Failed: check the password")]
             ELSE [key |-> None, error |-> Some("Failed")]

\* filepath.split("/")[-1]
Filename(filepath) == filepath[Len(filepath)]

\* ---------------------------------------------------------------- state

VARIABLES
    server,         \* the --bootstrap option: TRUE when a server is supplied
    stage,          \* position in ceremony(): the block that runs (or ran last)
    pc,             \* the prompt the program is blocked on inside a role
    idx,            \* index in Roles of the role the current loop is at
    roles,          \* SETTINGS.roles
    service,        \* SETTINGS.service
    key_count,      \* local of _configure_keys
    metadata,       \* result of initialize_metadata
    json_payload,   \* the payload being assembled
    requests,       \* the HTTP requests issued so far, in order
    exit,           \* "none" while running, then how the command ended
    prompted,       \* TRUE once any prompt was shown to the operator
    reported,       \* the failure _configure_keys printed for the key entered
                    \* last: "none" when that key was accepted
    deviations,     \* number of custom answers given so far
    answers,        \* per role, what the operator typed in the latest run of
                    \* _configure_role and _configure_keys for it
    before          \* in the review, after a summary was declined: the role
                    \* as it was summarised; None otherwise

vars == <<server, stage, pc, idx, roles, service, key_count, metadata,
          json_payload, requests, exit, prompted, reported, deviations,
          answers, before>>

\* The record of the operator's input.
history == <<answers, before>>

cur == Roles[idx]

NoPayload == [settings |-> [service |-> [targets_base_url |-> <<>>],
                            roles |-> <<>>],
              metadata |-> <<>>]

\* Nothing typed yet for a role: no prompt of _configure_role answered, no
\* key accepted by _configure_keys.
NoAnswers ==
    [expiration |-> None, num_of_keys |-> None, threshold |-> None,
     targets_base_url |-> None, input_paths |-> None,
     number_hash_prefixes |-> None, keys |-> <<>>]

Init ==
    /\ server \in BOOLEAN
    /\ stage = "precheck"
    /\ pc = "none"
    /\ idx = 1
    /\ roles = [r \in RoleNames |-> RolesKeysInput]
    /\ service = [targets_base_url |-> <<>>]
    /\ key_count = 1
    /\ metadata = <<>>
    /\ json_payload = NoPayload
    /\ requests = <<>>
    /\ exit = "none"
    /\ prompted = FALSE
    /\ reported = "none"
    /\ deviations = 0
    /\ answers = [r \in RoleNames |-> NoAnswers]
    /\ before = None

\* ------------------------------------------------------- pure helpers

\* dict.get(field): None when the dict has no such entry.
Get(d, field) == IF field \in DOMAIN d THEN Some(d[field]) ELSE None

\* One role's part of the scan of _key_is_duplicated: "dup" for return
\* True, "not" for return False, "next" to go on with the next role.
ScanRole(key, items) ==
    IF \E i \in 1..Len(items) : Some(key) = Get(items[i].value, "key")
        THEN "dup"
    ELSE IF \E i \in 1..Len(items) : Some(key) = Get(items[i].value, "path")
        THEN "not"
    ELSE "next"

RECURSIVE KeyIsDuplicatedFrom(_, _, _)
KeyIsDuplicatedFrom(key, rs, i) ==
    IF i > Len(Roles) THEN FALSE
    ELSE LET found == ScanRole(key, rs[Roles[i]].keys)
         IN  IF found = "dup" THEN TRUE
             ELSE IF found = "not" THEN FALSE
             ELSE KeyIsDuplicatedFrom(key, rs, i + 1)

\* Mutant of _key_is_duplicated: the scan returns after the first role.
KeyIsDuplicatedInFirstRole(key, rs) == ScanRole(key, rs[Roles[1]].keys) = "dup"

\* _key_is_duplicated(key), on the roles rs
_key_is_duplicated(key, rs) == KeyIsDuplicatedFrom(key, rs, 1)

\* Mutant of ResetRole: the keys of every role are cleared.
ResetAllRoles(rs, r) ==
    [q \in RoleNames |->
        IF q = r
            THEN [rs[q] EXCEPT !.keys = <<>>,
                               !.threshold = default_settings[r].threshold,
                               !.offline_keys = default_settings[r].offline_keys]
            ELSE [rs[q] EXCEPT !.keys = <<>>]]

\* Mutant of ResetRole: the keys of the role are not cleared.
ResetRoleKeepsKeys(rs, r) ==
    [rs EXCEPT ![r].threshold = default_settings[r].threshold,
               ![r].offline_keys = default_settings[r].offline_keys]

\* The head of _configure_role: the reset done before the first prompt.
ResetRole(rs, r) ==
    [rs EXCEPT ![r].keys = <<>>,
               ![r].threshold = default_settings[r].threshold,
               ![r].offline_keys = default_settings[r].offline_keys]

\* d[slot] = value on an insertion-ordered dict: a new entry goes last, an
\* existing one keeps its place.
DictSet(items, slot, value) ==
    IF \E i \in 1..Len(items) : items[i].slot = slot
        THEN [i \in 1..Len(items) |->
                 IF items[i].slot = slot
                     THEN [slot |-> slot, value |-> value]
                     ELSE items[i]]
        ELSE Append(items, [slot |-> slot, value |-> value])

\* The key ids held by accepted key records, over all roles.
UsedKeyIds(rs) ==
    UNION {{rs[r].keys[i].value.key.keyid : i \in 1..Len(rs[r].keys)} :
           r \in RoleNames}

\* The cooperative operator's next key file: in directory 1, the lowest
\* numbered key that no role holds yet.
NextUnusedKeyId(used) ==
    CHOOSE n \in 1..(Cardinality(used) + 1) :
        /\ n \notin used
        /\ \A m \in 1..(n - 1) : m \in used

\* The existing key files the operator may name at a key prompt.  In
\* directory 1: the cooperative file, the file of the first key and the
\* file of the highest key in use (a key of the first role and one of the
\* latest role, when they hold keys).  In directory 2: the file of the next
\* unused key (whose name is that of a key already in use), and file 1,
\* which holds key 2.
FileInputs(used) ==
    LET next == NextUnusedKeyId(used)
    IN  {<<1, n>> : n \in {1, next} \cup {n \in used : \A m \in used : m <= n}}
            \cup {<<2, n>> : n \in {1, next - 1} \ {0}}

\* What the operator may type at the path and password prompts: a key file
\* with its password, a key file with a wrong password, and a path in
\* directory 3, which does not exist.
KeyInputs(used) ==
    {[filepath |-> f, password |-> PasswordOfFile(f)] : f \in FileInputs(used)}
        \cup {[filepath |-> <<1, 1>>, password |-> WrongPassword],
              [filepath |-> <<3, 1>>, password |-> PasswordOfFile(<<3, 1>>)]}

\* What an answer costs against MaxCustomAnswers.
Cost(answer, cooperative) == IF answer = cooperative THEN 0 ELSE 1

Spend(cost) ==
    /\ deviations + cost <= MaxCustomAnswers
    /\ deviations' = deviations + cost

\* The command is still running.
Running == exit = "none"

\* A ClickException: the command ends, where it is, with a message.
Abort(message) ==
    /\ exit' = message
    /\ UNCHANGED <<stage, pc>>

\* The messages of the ClickExceptions of the ceremony.
AbortMessages ==
    {"Failed to connect", "Error: status", "bootstrap message",
     "Ceremony aborted.", "Required key not validated.", "response.text"}

Aborted == exit \in AbortMessages

\* --------------------------------------------------------------- precheck

\* ceremony(), no server: the precheck is skipped.
PrecheckSkipped ==
    /\ Running
    /\ UNCHANGED <<reported, history>>
    /\ stage = "precheck"
    /\ ~server
    /\ stage' = "intro"
    /\ UNCHANGED <<server, pc, idx, roles, service, key_count, metadata,
                   json_payload, requests, exit, prompted, deviations>>

\* The answers of the server to the precheck GET.
PrecheckResponses ==
    {[status_code |-> 200, bootstrap |-> Some(TRUE)],
     [status_code |-> 200, bootstrap |-> Some(FALSE)],
     [status_code |-> 200, bootstrap |-> None],
     [status_code |-> 404, bootstrap |-> None],
     [status_code |-> 500, bootstrap |-> Some(FALSE)]}

\* ceremony(), server given: GET api/v1/bootstrap/ fails to connect.
PrecheckConnectionError ==
    /\ Running
    /\ UNCHANGED <<reported, history>>
    /\ stage = "precheck"
    /\ server
    /\ requests' = Append(requests, [method |-> "get", connected |-> FALSE])
    /\ Abort("Failed to connect")
    /\ UNCHANGED <<server, idx, roles, service, key_count, metadata,
                   json_payload, prompted, deviations>>

\* Mutant of PrecheckResponse: the bootstrap flag of the answer is not looked
\* at.
PrecheckResponseUnchecked ==
    /\ Running
    /\ UNCHANGED <<reported, history>>
    /\ stage = "precheck"
    /\ server
    /\ \E response \in PrecheckResponses :
        /\ requests' = Append(requests,
               [method |-> "get", connected |-> TRUE,
                status_code |-> response.status_code,
                bootstrap_is_true |-> response.bootstrap = Some(TRUE)])
        /\ IF response.status_code # 200
              THEN Abort("Error: status")
              ELSE /\ stage' = "intro"
                   /\ UNCHANGED <<pc, exit>>
    /\ UNCHANGED <<server, idx, roles, service, key_count, metadata,
                   json_payload, prompted, deviations>>

\* ceremony(), server given: GET api/v1/bootstrap/ is answered.  The log
\* keeps what the code reads of the answer: the status code and whether
\* json_response.get("bootstrap") is True.
PrecheckResponse ==
    /\ Running
    /\ UNCHANGED <<reported, history>>
    /\ stage = "precheck"
    /\ server
    /\ \E response \in PrecheckResponses :
        /\ requests' = Append(requests,
               [method |-> "get", connected |-> TRUE,
                status_code |-> response.status_code,
                bootstrap_is_true |-> response.bootstrap = Some(TRUE)])
        /\ IF response.status_code # 200
              THEN Abort("Error: status")
           ELSE IF response.bootstrap = Some(TRUE)
              THEN Abort("bootstrap message")
           ELSE /\ stage' = "intro"
                /\ UNCHANGED <<pc, exit>>
    /\ UNCHANGED <<server, idx, roles, service, key_count, metadata,
                   json_payload, prompted, deviations>>

\* "Do you want start the ceremony?"
StartCeremony ==
    /\ Running
    /\ UNCHANGED <<reported, history>>
    /\ stage = "intro"
    /\ prompted' = TRUE
    /\ \E start_ceremony \in BOOLEAN :
        IF start_ceremony = FALSE
            THEN /\ Abort("Ceremony aborted.")
                 /\ UNCHANGED <<idx, roles>>
            ELSE /\ stage' = "step1"
                 /\ idx' = 1
                 /\ roles' = ResetRole(roles, Roles[1])
                 /\ pc' = "expiration"
                 /\ UNCHANGED exit
    /\ UNCHANGED <<server, service, key_count, metadata, json_payload,
                   requests, deviations>>

\* -------------------------------------------------------- _configure_keys

\* The loop condition of _configure_keys.
NeedsMoreKeys(role) == Len(role.keys) < role.num_of_keys

\* Mutant of NextRoleToLoad: no call of _configure_keys in STEP 2 prompts.
NoRoleToLoad(rs, i) == 0

\* The first role from position i on whose _configure_keys has to prompt
\* (for the others the call returns at once); 0 when there is none.
RECURSIVE NextRoleToLoad(_, _)
NextRoleToLoad(rs, i) ==
    IF i > Len(Roles) THEN 0
    ELSE IF NeedsMoreKeys(rs[Roles[i]]) THEN i
    ELSE NextRoleToLoad(rs, i + 1)

\* The loop "for rolename, role in SETTINGS.roles.items():
\* _configure_keys(rolename, role)" from position i on, up to its next
\* prompt; when no call prompts any more, STEP 3 starts with the summary of
\* the first role.
LoadKeysFrom(rs, i) ==
    LET j == NextRoleToLoad(rs, i)
    IN  /\ roles' = rs
        /\ key_count' = 1
        /\ IF j # 0
              THEN /\ stage' = "step2"
                   /\ idx' = j
                   /\ pc' = "key"
              ELSE /\ stage' = "step3"
                   /\ idx' = 1
                   /\ pc' = "confirm"

\* _configure_keys(rolename, role) called from the review loop, up to its
\* first prompt or its return to the summary.
ReloadKeys(rs) ==
    /\ roles' = rs
    /\ key_count' = 1
    /\ pc' = IF NeedsMoreKeys(rs[cur]) THEN "key" ELSE "confirm"
    /\ UNCHANGED <<stage, idx>>

\* _configure_keys: the end of one pass of the loop that accepted a key.
KeyAccepted(rs) ==
    IF NeedsMoreKeys(rs[cur])
        THEN /\ roles' = rs
             /\ key_count' = key_count + 1
             /\ pc' = "key"
             /\ UNCHANGED <<stage, idx>>
    ELSE IF stage = "step2" THEN LoadKeysFrom(rs, idx + 1)
    ELSE /\ roles' = rs
         /\ key_count' = 1
         /\ pc' = "confirm"
         /\ UNCHANGED <<stage, idx>>

\* -------------------------------------------------------- _configure_role

\* Mutant of ConfigureRoleReturns: STEP 1 ends after the first role.
ConfigureRoleReturnsEarly(rs) ==
    IF stage = "step1"
        THEN /\ roles' = rs
             /\ stage' = "ready"
             /\ pc' = "none"
             /\ UNCHANGED <<idx, key_count>>
        ELSE ReloadKeys(rs)

\* _configure_role returns: in STEP 1 the loop goes on with the next role
\* (or ends, and the "Ready to start loading the keys?" prompt is shown);
\* in the review loop _configure_keys is called next.
ConfigureRoleReturns(rs) ==
    IF stage = "step1"
        THEN IF idx < Len(Roles)
                THEN /\ roles' = ResetRole(rs, Roles[idx + 1])
                     /\ idx' = idx + 1
                     /\ pc' = "expiration"
                     /\ UNCHANGED <<stage, key_count>>
                ELSE /\ roles' = rs
                     /\ stage' = "ready"
                     /\ pc' = "none"
                     /\ UNCHANGED <<idx, key_count>>
        ELSE ReloadKeys(rs)

\* _configure_role after the threshold is set: the role-specific prompts.
ThresholdSettled(rs) ==
    IF cur = "targets"
        THEN /\ roles' = rs
             /\ pc' = "base_url"
             /\ UNCHANGED <<stage, idx, key_count>>
    ELSE IF cur = "bins"
        THEN /\ roles' = rs
             /\ pc' = "hash_prefixes"
             /\ UNCHANGED <<stage, idx, key_count>>
    ELSE ConfigureRoleReturns(rs)

\* "What Metadata expiration for <role> role?(Days)"
AnswerExpiration ==
    /\ Running
    /\ UNCHANGED <<reported, before>>
    /\ pc = "expiration"
    /\ \E expiration \in {default_settings[cur].expiration} \cup ExpirationInputs :
        /\ Spend(Cost(expiration, default_settings[cur].expiration))
        /\ answers' = [answers EXCEPT
                          ![cur] = [NoAnswers EXCEPT !.expiration = Some(expiration)]]
        /\ roles' = [roles EXCEPT ![cur].expiration = expiration]
    /\ pc' = "num_of_keys"
    /\ UNCHANGED <<server, stage, idx, service, key_count, metadata,
                   json_payload, requests, exit, prompted>>

\* Mutant of AsksThreshold: the threshold is asked for a single key too.
AsksThresholdForOneKey(num_of_keys) == num_of_keys >= 1

\* "if role.num_of_keys > 1": whether the threshold prompt is shown.
AsksThreshold(num_of_keys) == num_of_keys > 1

\* "What is the number of keys for <role> role?"
AnswerNumOfKeys ==
    /\ Running
    /\ UNCHANGED <<reported, before>>
    /\ pc = "num_of_keys"
    /\ \E num_of_keys \in {default_settings[cur].keys} \cup NumOfKeysInputs :
        /\ Spend(Cost(num_of_keys, default_settings[cur].keys))
        /\ answers' = [answers EXCEPT ![cur].num_of_keys = Some(num_of_keys)]
        /\ IF AsksThreshold(num_of_keys)
              THEN /\ roles' = [roles EXCEPT ![cur].num_of_keys = num_of_keys]
                   /\ pc' = "threshold"
                   /\ UNCHANGED <<stage, idx, key_count>>
              ELSE ThresholdSettled(
                       [roles EXCEPT ![cur].num_of_keys = num_of_keys,
                                     ![cur].threshold = 1])
    /\ UNCHANGED <<server, service, metadata, json_payload, requests, exit,
                   prompted>>

\* "What is the key threshold for <role> role signing?"
AnswerThreshold ==
    /\ Running
    /\ UNCHANGED <<reported, before>>
    /\ pc = "threshold"
    /\ \E threshold \in {default_settings[cur].threshold} \cup ThresholdInputs :
        /\ Spend(Cost(threshold, default_settings[cur].threshold))
        /\ answers' = [answers EXCEPT ![cur].threshold = Some(threshold)]
        /\ ThresholdSettled([roles EXCEPT ![cur].threshold = threshold])
    /\ UNCHANGED <<server, service, metadata, json_payload, requests, exit,
                   prompted>>

\* Mutant of NormalizeBaseUrl: the URL is stored as typed.
NormalizeBaseUrlSkipped(targets_base_url) == targets_base_url

\* "if targets_base_url.endswith("/") is False: ... + "/""
NormalizeBaseUrl(targets_base_url) ==
    IF EndsWithSlash(targets_base_url) = FALSE
        THEN targets_base_url \o <<"/">>
        ELSE targets_base_url

\* "Show example" and "What is the Base URL ..."
AnswerBaseUrl ==
    /\ Running
    /\ UNCHANGED <<reported, before>>
    /\ pc = "base_url"
    /\ \E show_example \in BOOLEAN, targets_base_url \in {CooperativeUrl} \cup UrlInputs :
        /\ Spend(Cost(targets_base_url, CooperativeUrl))
        /\ answers' = [answers EXCEPT
                          ![cur].targets_base_url = Some(targets_base_url)]
        /\ service' = [service EXCEPT
                          !.targets_base_url = NormalizeBaseUrl(targets_base_url)]
    /\ pc' = "paths"
    /\ UNCHANGED <<server, stage, idx, roles, key_count, metadata,
                   json_payload, requests, exit, prompted>>

\* "What paths <role> delegates?"
AnswerPaths ==
    /\ Running
    /\ UNCHANGED <<reported, before>>
    /\ pc = "paths"
    /\ \E input_paths \in {DefaultPaths} \cup PathsInputs :
        /\ Spend(Cost(input_paths, DefaultPaths))
        /\ answers' = [answers EXCEPT ![cur].input_paths = Some(input_paths)]
        /\ ConfigureRoleReturns(
               [roles EXCEPT ![cur].paths = Some(DelegatePaths(input_paths))])
    /\ UNCHANGED <<server, service, metadata, json_payload, requests, exit,
                   prompted>>

\* "Number of hashed bins for <role>?"
AnswerHashPrefixes ==
    /\ Running
    /\ UNCHANGED <<reported, before>>
    /\ pc = "hash_prefixes"
    /\ \E number_hash_prefixes \in {64} \cup HashPrefixInputs :
        /\ Spend(Cost(number_hash_prefixes, 64))
        /\ answers' = [answers EXCEPT
                          ![cur].number_hash_prefixes = Some(number_hash_prefixes)]
        /\ ConfigureRoleReturns(
               [roles EXCEPT ![cur].number_hash_prefixes =
                                 Some(number_hash_prefixes)])
    /\ UNCHANGED <<server, service, metadata, json_payload, requests, exit,
                   prompted>>

\* "Ready to start loading the keys? Passwords will be required for keys"
ReadyToLoadKeys ==
    /\ Running
    /\ UNCHANGED <<reported, history>>
    /\ stage = "ready"
    /\ \E start_ceremony \in BOOLEAN :
        IF start_ceremony = FALSE
            THEN /\ Abort("Ceremony aborted.")
                 /\ UNCHANGED <<idx, roles, key_count>>
            ELSE /\ LoadKeysFrom(roles, 1)
                 /\ UNCHANGED exit
    /\ UNCHANGED <<server, service, metadata, json_payload, requests,
                   prompted, deviations>>

\* One pass of the loop of _configure_keys: the path and password prompts,
\* _load_key, the duplicate check and the new entry of role.keys.
EnterKey ==
    /\ Running
    /\ pc = "key"
    /\ LET used == UsedKeyIds(roles)
           cooperative == <<1, NextUnusedKeyId(used)>>
       IN  \E input \in KeyInputs(used) :
            LET filepath == input.filepath
                password == input.password
                key == _load_key(filepath, password)
            IN  IF key.error # None
                   THEN /\ reported' = key.error[1]
                        /\ pc' = "try_again"
                        /\ UNCHANGED <<stage, idx, roles, key_count, deviations,
                                       answers>>
                ELSE IF key.key # None
                        /\ _key_is_duplicated(key.key[1], roles) = TRUE
                   THEN /\ reported' = "Failed: Key is duplicated."
                        /\ UNCHANGED <<stage, pc, idx, roles, key_count, deviations,
                                       answers>>
                ELSE /\ reported' = "none"
                     /\ Spend(Cost(filepath, cooperative))
                     /\ answers' = [answers EXCEPT ![cur].keys = Append(@, input)]
                     /\ KeyAccepted(
                            [roles EXCEPT ![cur].keys = DictSet(@,
                                <<cur, key_count>>,
                                [filename |-> Filename(filepath),
                                 password |-> password,
                                 key |-> key.key[1]])])
    /\ UNCHANGED <<server, service, metadata, json_payload, requests, exit,
                   prompted, before>>

\* Mutant of TryAgain: a retry moves on to the next slot number.
TryAgainSkipsSlot ==
    /\ Running
    /\ UNCHANGED history
    /\ pc = "try_again"
    /\ \E try_again \in BOOLEAN :
        IF try_again
            THEN /\ pc' = "key"
                 /\ key_count' = key_count + 1
                 /\ UNCHANGED <<stage, exit>>
            ELSE /\ Abort("Required key not validated.")
                 /\ UNCHANGED key_count
    /\ reported' = "none"
    /\ UNCHANGED <<server, idx, roles, service, metadata, json_payload,
                   requests, prompted, deviations>>

\* "Try again?" after a key that failed to load
TryAgain ==
    /\ Running
    /\ UNCHANGED history
    /\ pc = "try_again"
    /\ \E try_again \in BOOLEAN :
        IF try_again
            THEN /\ pc' = "key"
                 /\ UNCHANGED <<stage, exit>>
            ELSE Abort("Required key not validated.")
    /\ reported' = "none"
    /\ UNCHANGED <<server, idx, roles, service, key_count, metadata,
                   json_payload, requests, prompted, deviations>>

\* ------------------------------------------------------------- review

\* The cell of the summary table for the role, and its table of keys:
\* what the review prints for rolename.
Summary(rolename, role, svc) ==
    [rolename |-> rolename,
     number_of_keys |-> Len(role.keys),
     threshold |-> role.threshold,
     key_type |-> IF role.offline_keys = TRUE THEN "offline" ELSE "online",
     expiration |-> role.expiration,
     keys_table |-> [i \in 1..Len(role.keys) |->
                        [path |-> role.keys[i].value.filename,
                         id |-> role.keys[i].value.key.keyid]],
     delegations |->
        IF rolename = "targets"
            THEN Some([base_url |-> svc.targets_base_url, paths |-> role.paths])
        ELSE IF rolename = "bins"
            THEN Some([number_bins |-> role.number_hash_prefixes])
        ELSE None]

\* What is kept of the role under review when its summary is declined.
Declined ==
    [answers |-> answers[cur], role |-> roles[cur], service |-> service,
     summary |-> Summary(cur, roles[cur], service)]

\* "Configuration correct for <role>?" under the summary of the role
ConfirmConfig ==
    /\ Running
    /\ stage = "step3"
    /\ pc = "confirm"
    /\ \E confirm_config \in BOOLEAN :
        /\ IF ~confirm_config
              THEN /\ roles' = ResetRole(roles, cur)
                   /\ pc' = "expiration"
                   /\ before' = Some(Declined)
                   /\ Spend(1)
                   /\ UNCHANGED <<stage, idx>>
           ELSE IF idx < Len(Roles)
              THEN /\ idx' = idx + 1
                   /\ before' = None
                   /\ UNCHANGED <<stage, pc, roles, deviations>>
           ELSE /\ stage' = "initialize_metadata"
                /\ pc' = "none"
                /\ before' = None
                /\ UNCHANGED <<idx, roles, deviations>>
    /\ reported' = "none"
    /\ UNCHANGED <<server, service, key_count, metadata, json_payload,
                   requests, exit, prompted, answers>>

\* ----------------------------------------------------- payload assembly

\* kaprien.helpers.tuf.initialize_metadata: one metadata object per role,
\* made from the settings and keys the role holds when it is called.
initialize_metadata(rs) ==
    [r \in RoleNames |->
        [role |-> r,
         expiration |-> rs[r].expiration,
         threshold |-> rs[r].threshold,
         keyids |-> [i \in 1..Len(rs[r].keys) |-> rs[r].keys[i].value.key.keyid]]]

\* The to_dict() of a metadata object.
MetadataToDict(md) == [signed |-> md]

\* RolesKeysInput.to_dict(): the fields of the role, keys as a mapping from
\* slot to key record.
RoleToDict(data) ==
    [expiration |-> data.expiration,
     num_of_keys |-> data.num_of_keys,
     threshold |-> data.threshold,
     keys |-> [s \in {data.keys[i].slot : i \in 1..Len(data.keys)} |->
                  (CHOOSE item \in {data.keys[i] : i \in 1..Len(data.keys)} :
                       item.slot = s).value],
     offline_keys |-> data.offline_keys,
     paths |-> data.paths,
     number_hash_prefixes |-> data.number_hash_prefixes]

\* Mutant of ScrubOffline: the keys of offline roles are left in place.
ScrubOfflineSkipped(data) == data

\* "if data.offline_keys is True: data.keys.clear()"
ScrubOffline(data) ==
    IF data.offline_keys = TRUE THEN [data EXCEPT !.keys = <<>>] ELSE data

\* Mutant of InitializeMetadata: the initializer is given the roles with the
\* offline keys already cleared.
InitializeMetadataAfterScrub ==
    /\ Running
    /\ UNCHANGED <<reported, history>>
    /\ stage = "initialize_metadata"
    /\ metadata' = initialize_metadata([r \in RoleNames |-> ScrubOffline(roles[r])])
    /\ stage' = "assemble"
    /\ UNCHANGED <<server, pc, idx, roles, service, key_count, json_payload,
                   requests, exit, prompted, deviations>>

\* metadata = initialize_metadata(SETTINGS.roles)
InitializeMetadata ==
    /\ Running
    /\ UNCHANGED <<reported, history>>
    /\ stage = "initialize_metadata"
    /\ metadata' = initialize_metadata(roles)
    /\ stage' = "assemble"
    /\ UNCHANGED <<server, pc, idx, roles, service, key_count, json_payload,
                   requests, exit, prompted, deviations>>

\* The assembly of json_payload: the service settings, every role's
\* settings after the offline keys are cleared, and the metadata.
AssemblePayload ==
    /\ Running
    /\ UNCHANGED <<reported, history>>
    /\ stage = "assemble"
    /\ roles' = [r \in RoleNames |-> ScrubOffline(roles[r])]
    /\ json_payload' =
          [settings |-> [service |-> service,
                         roles |-> [r \in RoleNames |-> RoleToDict(roles'[r])]],
           metadata |-> [r \in DOMAIN metadata |-> MetadataToDict(metadata[r])]]
    /\ stage' = "submit"
    /\ UNCHANGED <<server, pc, idx, service, key_count, metadata, requests,
                   exit, prompted, deviations>>

\* ------------------------------------------------------------ submission

\* Status codes the server may answer the POST with.
SubmitStatusCodes == {200, 201, 400, 500}

\* Mutant of SubmitSkipped: without a server the submission loop goes round
\* instead of breaking.
SubmitSkippedLoops ==
    /\ Running
    /\ stage = "submit"
    /\ ~server
    /\ UNCHANGED vars

\* Mutant of SubmitSkipped: the POST is sent although no server was given.
SubmitNotSkipped ==
    /\ Running
    /\ UNCHANGED <<reported, history>>
    /\ stage = "submit"
    /\ ~server
    /\ requests' = Append(requests,
           [method |-> "post", connected |-> TRUE, status_code |-> 201,
            payload |-> json_payload])
    /\ stage' = "done"
    /\ exit' = "returned"
    /\ UNCHANGED <<server, pc, idx, roles, service, key_count, metadata,
                   json_payload, prompted, deviations>>

\* No server: the loop breaks and the command returns.
SubmitSkipped ==
    /\ Running
    /\ UNCHANGED <<reported, history>>
    /\ stage = "submit"
    /\ ~server
    /\ stage' = "done"
    /\ exit' = "returned"
    /\ UNCHANGED <<server, pc, idx, roles, service, key_count, metadata,
                   json_payload, requests, prompted, deviations>>

\* Mutant of SubmitResponse: after a status other than 201 the loop goes
\* round and posts again (up to three requests).
SubmitResponseRetries ==
    /\ Running
    /\ UNCHANGED <<reported, history>>
    /\ stage = "submit"
    /\ server
    /\ Len(requests) < 3
    /\ \E status_code \in SubmitStatusCodes :
        /\ requests' = Append(requests,
               [method |-> "post", connected |-> TRUE,
                status_code |-> status_code, payload |-> json_payload])
        /\ IF status_code # 201
              THEN UNCHANGED <<stage, pc, exit>>
              ELSE /\ stage' = "done"
                   /\ exit' = "returned"
                   /\ UNCHANGED pc
    /\ UNCHANGED <<server, idx, roles, service, key_count, metadata,
                   json_payload, prompted, deviations>>

\* POST api/v1/bootstrap with the payload is answered.
SubmitResponse ==
    /\ Running
    /\ UNCHANGED <<reported, history>>
    /\ stage = "submit"
    /\ server
    /\ \E status_code \in SubmitStatusCodes :
        /\ requests' = Append(requests,
               [method |-> "post", connected |-> TRUE,
                status_code |-> status_code, payload |-> json_payload])
        /\ IF status_code # 201
              THEN Abort("response.text")
              ELSE /\ stage' = "done"
                   /\ exit' = "returned"
                   /\ UNCHANGED pc
    /\ UNCHANGED <<server, idx, roles, service, key_count, metadata,
                   json_payload, prompted, deviations>>

\* POST api/v1/bootstrap fails to connect: nothing catches the
\* ConnectionError and the command ends with it.
SubmitConnectionError ==
    /\ Running
    /\ UNCHANGED <<reported, history>>
    /\ stage = "submit"
    /\ server
    /\ requests' = Append(requests,
           [method |-> "post", connected |-> FALSE, payload |-> json_payload])
    /\ exit' = "requests.exceptions.ConnectionError"
    /\ UNCHANGED <<server, stage, pc, idx, roles, service, key_count, metadata,
                   json_payload, prompted, deviations>>

\* ------------------------------------------------------------------ spec

Next ==
    \/ PrecheckSkipped
    \/ PrecheckConnectionError
    \/ PrecheckResponse
    \/ StartCeremony
    \/ AnswerExpiration
    \/ AnswerNumOfKeys
    \/ AnswerThreshold
    \/ AnswerBaseUrl
    \/ AnswerPaths
    \/ AnswerHashPrefixes
    \/ ReadyToLoadKeys
    \/ EnterKey
    \/ TryAgain
    \/ ConfirmConfig
    \/ InitializeMetadata
    \/ AssemblePayload
    \/ SubmitSkipped
    \/ SubmitResponse
    \/ SubmitConnectionError

Spec == Init /\ [][Next]_vars

\* ------------------------------------------------------------ type check

TypeOK ==
    /\ server \in BOOLEAN
    /\ idx \in 1..Len(Roles)
    /\ deviations \in 0..MaxCustomAnswers
    /\ key_count >= 1
    /\ stage = "done" <=> exit = "returned"
    /\ pc # "none" <=> stage \in {"step1", "step2", "step3"}

\* ------------------------------------------------- positions and views

ConfigPrompts ==
    {"expiration", "num_of_keys", "threshold", "base_url", "paths",
     "hash_prefixes"}

KeyPrompts == {"key", "try_again"}

RoleIndex == [r \in RoleNames |-> CHOOSE i \in 1..Len(Roles) : Roles[i] = r]

\* The last call of _configure_role for r has returned.
Configured(r) ==
    CASE stage = "step1" -> RoleIndex[r] < idx
      [] stage = "step3" -> ~(r = cur /\ pc \in ConfigPrompts)
      [] stage \in {"ready", "step2", "initialize_metadata", "assemble",
                    "submit", "done"} -> TRUE
      [] OTHER -> FALSE

\* The last call of _configure_keys for r has returned normally, and the
\* payload assembly has not run yet.
KeysLoaded(r) ==
    CASE stage = "step2" -> RoleIndex[r] < idx
      [] stage = "step3" -> r # cur \/ pc = "confirm"
      [] stage \in {"initialize_metadata", "assemble"} -> TRUE
      [] OTHER -> FALSE

\* json_payload is assembled.
PayloadBuilt == stage \in {"submit", "done"}

PayloadRole(r) == json_payload.settings.roles[r]

\* The key records of the payload's role settings.
PayloadKeyRecords ==
    UNION {{PayloadRole(r).keys[slot] : slot \in DOMAIN PayloadRole(r).keys} :
           r \in RoleNames}

\* The body of every POST is the assembled payload.
PostsCarryPayload ==
    \A i \in 1..Len(requests) :
        requests[i].method = "post" => requests[i].payload = json_payload

\* ---------------------------------------------------------------- claims

\* C1: once the payload is assembled, no key record in it (and so none in
\* the body of the POST) carries the password the operator entered, for any
\* role, offline or online.
C1_NoPasswordInPayload ==
    PayloadBuilt =>
        /\ \A record \in PayloadKeyRecords : "password" \notin DOMAIN record
        /\ PostsCarryPayload

\* C2: in the assembled payload every role with offline_keys true has an
\* empty keys mapping, whatever keys were collected for it.
C2_OfflineRolesHaveNoKeys ==
    PayloadBuilt =>
        \A r \in RoleNames :
            PayloadRole(r).offline_keys = TRUE => DOMAIN PayloadRole(r).keys = {}

\* C2 witness: the payload is built, with an empty keys mapping for an
\* offline role that was configured with three keys and had all three
\* collected (the metadata initializer saw them).
C2_Witness ==
    /\ PayloadBuilt
    /\ \E r \in RoleNames :
        /\ PayloadRole(r).offline_keys = TRUE
        /\ PayloadRole(r).num_of_keys = 3
        /\ Len(metadata[r].keyids) = 3
        /\ DOMAIN PayloadRole(r).keys = {}

\* C3: in the assembled payload every role with offline_keys false has a
\* non-empty keys mapping, holding exactly the key records accepted for the
\* role, as many as its num_of_keys.
C3_OnlineRolesKeepKeys ==
    PayloadBuilt =>
        \A r \in RoleNames :
            PayloadRole(r).offline_keys = FALSE =>
                /\ DOMAIN PayloadRole(r).keys # {}
                /\ Cardinality(DOMAIN PayloadRole(r).keys) = PayloadRole(r).num_of_keys
                /\ \A i \in 1..Len(roles[r].keys) :
                       /\ roles[r].keys[i].slot \in DOMAIN PayloadRole(r).keys
                       /\ PayloadRole(r).keys[roles[r].keys[i].slot] =
                              roles[r].keys[i].value
                /\ Cardinality(DOMAIN PayloadRole(r).keys) = Len(roles[r].keys)

\* C4: a role configured with more than one key has a threshold between 1
\* and its number of keys, whatever integer was entered at the threshold
\* prompt.
C4_ThresholdWithinKeys ==
    \A r \in RoleNames :
        (Configured(r) /\ roles[r].num_of_keys > 1) =>
            (1 <= roles[r].threshold /\ roles[r].threshold <= roles[r].num_of_keys)

\* C5: a configured role with one key has threshold 1, and the threshold
\* prompt is shown only for a role with more than one key.
C5_SingleKeyThresholdOne ==
    /\ \A r \in RoleNames :
           (Configured(r) /\ roles[r].num_of_keys = 1) => roles[r].threshold = 1
    /\ pc = "threshold" => roles[cur].num_of_keys > 1

\* C5 witness: in review, a role whose default is two keys was configured
\* again with one key, and its summary is shown.
C5_Witness ==
    /\ stage = "step3"
    /\ pc = "confirm"
    /\ default_settings[cur].keys = 2
    /\ roles[cur].num_of_keys = 1
    /\ Len(roles[cur].keys) = 1

\* C6: no two accepted key records, of one role or of two, hold the same
\* key material.
C6_NoSharedKeyMaterial ==
    \A r1 \in RoleNames, r2 \in RoleNames :
        \A i \in 1..Len(roles[r1].keys), j \in 1..Len(roles[r2].keys) :
            (r1 # r2 \/ i # j) =>
                roles[r1].keys[i].value.key # roles[r2].keys[j].value.key

\* C6 witness: during the re-entry of a role in review, while other roles
\* and the role itself hold accepted keys, a key was just rejected as a
\* duplicate.
C6_Witness ==
    /\ stage = "step3"
    /\ pc = "key"
    /\ reported = "Failed: Key is duplicated."
    /\ Len(roles[cur].keys) >= 1
    /\ \E r \in RoleNames \ {cur} : Len(roles[r].keys) >= 1

\* C7: the keys mapping of a role is never larger than the role's
\* num_of_keys.
C7_KeysWithinNumOfKeys ==
    \A r \in RoleNames : Len(roles[r].keys) <= roles[r].num_of_keys

\* C8: when _configure_keys has returned for a role, the role holds exactly
\* num_of_keys accepted keys, pairwise distinct.
C8_ReturnsWithAllKeys ==
    \A r \in RoleNames :
        KeysLoaded(r) =>
            /\ Len(roles[r].keys) = roles[r].num_of_keys
            /\ \A i \in 1..Len(roles[r].keys), j \in 1..Len(roles[r].keys) :
                   i # j => roles[r].keys[i].value.key # roles[r].keys[j].value.key

\* The steps of the stages: a stage is left only for the next one, STEP 1
\* after the last role is configured, the key loading when no role lacks a
\* key, the review after the last role is accepted.
StageStep ==
    \/ stage' = stage
    \/ stage = "precheck" /\ stage' = "intro"
    \/ stage = "intro" /\ stage' = "step1"
    \/ stage = "step1" /\ stage' = "ready" /\ idx = Len(Roles)
    \/ stage = "ready" /\ stage' = "step2"
    \/ /\ stage \in {"ready", "step2"}
       /\ stage' = "step3"
       /\ \A r \in RoleNames : ~NeedsMoreKeys(roles'[r])
    \/ /\ stage = "step3"
       /\ stage' = "initialize_metadata"
       /\ idx = Len(Roles)
       /\ pc = "confirm"
    \/ stage = "initialize_metadata" /\ stage' = "assemble"
    \/ stage = "assemble" /\ stage' = "submit"
    \/ stage = "submit" /\ stage' = "done"

\* C9 as stated: the stages follow one another, no configuration prompt is
\* answered outside STEP 1 and no key is entered outside STEP 2.
C9_StrictStages ==
    [][/\ StageStep
       /\ pc' \in ConfigPrompts => stage' = "step1"
       /\ pc' \in KeyPrompts => stage' = "step2"]_vars

\* C9 amended: the stages follow one another; within STEP 1, STEP 2 and the
\* review the roles are taken in order; configuration prompts and key
\* prompts outside their own stage occur only in the review, for the role
\* whose summary the operator is looking at.
C9_StageOrder ==
    [][/\ StageStep
       /\ pc' \in ConfigPrompts => stage' \in {"step1", "step3"}
       /\ pc' \in KeyPrompts => stage' \in {"step2", "step3"}
       /\ (stage' = "step3" /\ pc' # "confirm") => (stage = "step3" /\ idx' = idx)
       /\ (stage = stage' /\ stage \in {"step1", "step3"}) => idx' \in {idx, idx + 1}
       /\ (stage = stage' /\ stage = "step2") => idx' >= idx]_vars

\* C9 witness: in the review, a role other than the first is being
\* configured again and a key of it is asked for.
C9_Witness ==
    /\ stage = "step3"
    /\ pc = "key"
    /\ idx > 1

\* The precheck GET was answered with status 200 and bootstrap not true.
PrecheckPassed ==
    /\ Len(requests) >= 1
    /\ requests[1].method = "get"
    /\ requests[1].connected
    /\ requests[1].status_code = 200
    /\ ~requests[1].bootstrap_is_true

\* C10: with a server, a prompt is shown only after a precheck that passed;
\* after any other precheck the command has aborted with no prompt shown and
\* no role or service setting changed.
C10_PrecheckGatesCeremony ==
    server =>
        /\ (prompted \/ stage # "precheck") => PrecheckPassed
        /\ (Len(requests) >= 1 /\ ~PrecheckPassed) =>
               /\ Aborted
               /\ ~prompted
               /\ stage = "precheck"
               /\ roles = [r \in RoleNames |-> RolesKeysInput]
               /\ service = [targets_base_url |-> <<>>]

\* C10 witness: the precheck answered bootstrap true and the command ended
\* with the server's message.
C10_Witness ==
    /\ server
    /\ Len(requests) = 1
    /\ requests[1].connected
    /\ requests[1].status_code = 200
    /\ requests[1].bootstrap_is_true
    /\ exit = "bootstrap message"

\* ------------------------------------------------- submission (C11-C13)

\* The positions of the POSTs in the request log.
Posts == {i \in 1..Len(requests) : requests[i].method = "post"}

\* The last call of the review loop for r ended with the summary accepted.
Reviewed(r) ==
    CASE stage = "step3" -> RoleIndex[r] < idx
      [] stage \in {"initialize_metadata", "assemble", "submit", "done"} -> TRUE
      [] OTHER -> FALSE

\* C11: at most one POST is ever issued and nothing is requested after it;
\* when its answer has a status other than 201 the command has ended, at the
\* submission, with a ClickException carrying the response text, and when
\* the status is 201 the command has returned.
C11_RejectionIsFatalNoRetry ==
    /\ Cardinality(Posts) <= 1
    /\ \A i \in Posts :
        /\ i = Len(requests)
        /\ requests[i].connected =>
               IF requests[i].status_code # 201
                   THEN exit = "response.text" /\ stage = "submit"
                   ELSE exit = "returned" /\ stage = "done"

\* C11 witness: the server answered the POST with 500 and the command ended
\* with the response text.
C11_Witness ==
    /\ Posts # {}
    /\ requests[Len(requests)].method = "post"
    /\ requests[Len(requests)].connected
    /\ requests[Len(requests)].status_code = 500
    /\ exit = "response.text"

\* The aborts that happen before the submission.
EarlyAborts ==
    {"Failed to connect", "Error: status", "bootstrap message",
     "Ceremony aborted.", "Required key not validated."}

\* The body of the POST at position i holds the service settings, the
\* settings of every role as the operator answered them, and the metadata of
\* every role with one key id per key the operator loaded for it.
PostIsComplete(i) ==
    LET payload == requests[i].payload
    IN  /\ payload = json_payload
        /\ payload.settings.service = service
        /\ DOMAIN payload.settings.roles = RoleNames
        /\ DOMAIN payload.metadata = RoleNames
        /\ \A r \in RoleNames :
            /\ Some(payload.settings.roles[r].expiration) = answers[r].expiration
            /\ Some(payload.settings.roles[r].num_of_keys) = answers[r].num_of_keys
            /\ payload.settings.roles[r] = RoleToDict(roles[r])
            /\ Len(payload.metadata[r].signed.keyids) = Len(answers[r].keys)

\* C12: a POST is in the log only when the submission was reached with every
\* role configured, its keys collected (the loop of _configure_keys ran out
\* on the keys the operator loaded) and its summary accepted, no declined
\* summary pending, and the body of the POST is the complete payload; a
\* command that aborted before the submission has issued no POST.
C12_NoPartialSubmission ==
    /\ Posts # {} =>
        /\ stage \in {"submit", "done"}
        /\ before = None
        /\ \A r \in RoleNames :
            /\ Configured(r)
            /\ Reviewed(r)
            /\ Len(answers[r].keys) >= roles[r].num_of_keys
        /\ \A i \in Posts : PostIsComplete(i)
    /\ exit \in EarlyAborts => Posts = {}

\* C12 witness: the POST of a ceremony in which a role was given three keys
\* was accepted by the server.
C12_Witness ==
    /\ Posts # {}
    /\ exit = "returned"
    /\ \E r \in RoleNames :
        roles[r].num_of_keys = 3 /\ Len(answers[r].keys) = 3

\* C13: without a server no request is ever issued; once the review is
\* over the command does not abort, and when it has ended it has returned
\* with the payload assembled: the service settings, the settings of every
\* role and the metadata of every role.
C13_NoServerNoRequests ==
    ~server =>
        /\ requests = <<>>
        /\ PayloadBuilt => exit \in {"none", "returned"}
        /\ exit = "returned" =>
            /\ stage = "done"
            /\ json_payload.settings.service = service
            /\ \A r \in RoleNames :
                /\ json_payload.settings.roles[r] = RoleToDict(roles[r])
                /\ json_payload.metadata[r] = MetadataToDict(metadata[r])
                /\ Some(json_payload.settings.roles[r].expiration) =
                       answers[r].expiration

\* C13 witness: a ceremony without a server has returned, its payload
\* holding a role with a custom expiration.
C13_Witness ==
    /\ ~server
    /\ exit = "returned"
    /\ \E r \in RoleNames :
        json_payload.settings.roles[r].expiration \in ExpirationInputs

\* ------------------------------------------------------- review (C14)

\* s is the beginning of t, and t is longer.
IsProperPrefix(s, t) ==
    /\ Len(s) < Len(t)
    /\ \A i \in 1..Len(s) : s[i] = t[i]

\* In the re-entry after a declined summary, the prompts of _configure_role
\* were answered as they had been for the summary declined.
SameConfigAnswers ==
    /\ before # None
    /\ [answers[cur] EXCEPT !.keys = <<>>] =
           [before[1].answers EXCEPT !.keys = <<>>]

\* C14: in the review, after the summary of a role was declined: (a) when
\* the operator has typed the same answers and the same key files and
\* passwords in the same order, the role, the service settings and the
\* summary printed are those of the declined summary; (b) the keys the role
\* holds at the new summary are the keys typed in this re-entry, none is
\* left from before; (c) while the operator repeats the input, the next key
\* of the declined summary loads and is not a duplicate.
C14_ReviewIsIdempotent ==
    (stage = "step3" /\ before # None) =>
        /\ (pc = "confirm" /\ answers[cur] = before[1].answers) =>
               /\ roles[cur] = before[1].role
               /\ service = before[1].service
               /\ Summary(cur, roles[cur], service) = before[1].summary
        /\ pc = "confirm" => Len(roles[cur].keys) = Len(answers[cur].keys)
        /\ (/\ pc = "key"
            /\ SameConfigAnswers
            /\ IsProperPrefix(answers[cur].keys, before[1].answers.keys)) =>
               LET input == before[1].answers.keys[Len(answers[cur].keys) + 1]
                   key == _load_key(input.filepath, input.password)
               IN  /\ key.key # None
                   /\ _key_is_duplicated(key.key[1], roles) = FALSE

\* C14 witness: the summary of targets was declined, the operator typed the
\* same answers and the same two keys again, and the summary is shown again.
C14_Witness ==
    /\ stage = "step3"
    /\ pc = "confirm"
    /\ cur = "targets"
    /\ before # None
    /\ answers[cur] = before[1].answers
    /\ Len(roles[cur].keys) = 2

\* ----------------------------------------------------- base URL (C15)

\* C15: once the base URL prompt of targets is answered (in STEP 1 or in
\* the review), the answer is not empty and the stored targets_base_url ends
\* with "/": it is the answer itself when the answer ends with "/", and the
\* answer followed by one "/" otherwise; the payload's service settings
\* hold the same value.
C15_BaseUrlEndsWithSlash ==
    answers["targets"].targets_base_url # None =>
        LET input == answers["targets"].targets_base_url[1]
            stored == service.targets_base_url
        IN  /\ input # <<>>
            /\ stored # <<>>
            /\ stored[Len(stored)] = "/"
            /\ stored = IF input[Len(input)] = "/" THEN input
                        ELSE input \o <<"/">>
            /\ PayloadBuilt =>
                   json_payload.settings.service.targets_base_url = stored

\* C15 witness: the base URL of targets was typed without the trailing "/",
\* and the payload is assembled.
C15_Witness ==
    /\ PayloadBuilt
    /\ answers["targets"].targets_base_url = Some(CooperativeUrl)
    /\ CooperativeUrl[Len(CooperativeUrl)] # "/"
    /\ json_payload.settings.service.targets_base_url =
           CooperativeUrl \o <<"/">>

\* ------------------------------------------------- key collector (C16)

\* The failures _configure_keys prints for a key that did not load.
ImportFailures == {"Failed: check the password", "Failed"}

\* C16: every step: (a) _configure_keys ends the command only from the
\* "Try again?" prompt that follows a key that failed to load, with
\* "Required key not validated.", and that message comes from nowhere
\* else; (b) after a duplicate key the path prompt is shown again, with no
\* "Try again?" in between, and the role's keys, the slot number and the
\* position are unchanged; (c) a key that failed to load changes neither
\* the keys nor the slot number, and after "Try again?" is accepted the path
\* prompt is shown again, again with both unchanged.
C16_OneAbortExit ==
    [][/\ (pc \in KeyPrompts /\ exit' # "none") =>
            /\ pc = "try_again"
            /\ reported \in ImportFailures
            /\ exit' = "Required key not validated."
       /\ exit' = "Required key not validated." => pc = "try_again"
       /\ (pc = "key" /\ reported' = "Failed: Key is duplicated.") =>
            /\ pc' = "key"
            /\ exit' = "none"
            /\ UNCHANGED <<roles, key_count, stage, idx>>
       /\ (pc = "key" /\ pc' = "try_again") =>
            /\ reported' \in ImportFailures
            /\ UNCHANGED <<roles, key_count, stage, idx>>
       /\ (pc = "try_again" /\ exit' = "none") =>
            /\ pc' = "key"
            /\ UNCHANGED <<roles, key_count, stage, idx>>
      ]_vars

\* C16 witness: after one key of the role was accepted, a key failed to
\* load, the operator declined to try again and the command ended.
C16_Witness ==
    /\ exit = "Required key not validated."
    /\ pc = "try_again"
    /\ key_count = 2
    /\ Len(roles[cur].keys) = 1

\* --------------------------------------------------- re-entry frame (C17)

\* C17: every step of the review (the declined summary with the reset of
\* the role, each answer of the re-run of _configure_role and
\* _configure_keys, the accepted summary) leaves the settings and keys of
\* every role other than the one under review as they are, and leaves the
\* service settings as they are unless the role under review is targets.
C17_ReEntryFrame ==
    [][stage = "step3" =>
          /\ \A r \in RoleNames \ {cur} : roles'[r] = roles[r]
          /\ cur # "targets" => service' = service
      ]_vars

\* C17 witness: the summary of a role after the first was declined and the
\* re-run has cleared its keys and asks for the first of them again, while
\* the role accepted before it holds its keys.
C17_Witness ==
    /\ stage = "step3"
    /\ pc = "key"
    /\ idx >= 2
    /\ before # None
    /\ before[1].role.keys # <<>>
    /\ roles[cur].keys = <<>>
    /\ roles[Roles[1]].keys # <<>>

\* ------------------------------------------- metadata initializer (C18)

\* The key ids of the keys a role holds, in order.
KeyIdsOf(role) == [i \in 1..Len(role.keys) |-> role.keys[i].value.key.keyid]

\* C18: (a) the metadata is produced by one step only: the call of the
\* initializer, made once, when the review has accepted every role, while
\* every role (offline ones included) holds every key the operator loaded
\* for it; the call leaves the roles as they are and the metadata names the
\* key ids of all those keys; (b) after the review the roles change only
\* once the metadata exists, so the offline keys are cleared strictly after
\* the call; (c) the metadata exists exactly from the call on, so a command
\* that returned has made the call, and it keeps one key id per key loaded
\* after the offline keys are cleared.
C18_InitializerOnceBeforeScrub ==
    /\ [][metadata' # metadata =>
             /\ metadata = <<>>
             /\ stage = "initialize_metadata"
             /\ stage' = "assemble"
             /\ roles' = roles
             /\ \A r \in RoleNames :
                 /\ Reviewed(r)
                 /\ Len(roles[r].keys) = Len(answers[r].keys)
                 /\ metadata'[r].keyids = KeyIdsOf(roles[r])
         ]_vars
    /\ [][(stage \notin {"step1", "step2", "step3"} /\ roles' # roles) =>
             metadata # <<>> /\ metadata' = metadata
         ]_vars
    /\ [](metadata # <<>> <=> stage \in {"assemble", "submit", "done"})
    /\ [](PayloadBuilt =>
             \A r \in RoleNames :
                 Len(metadata[r].keyids) = Len(answers[r].keys))

\* C18 witness: the initializer has just been called and an offline role
\* still holds its two keys, both named in its metadata.
C18_Witness ==
    /\ stage = "assemble"
    /\ metadata # <<>>
    /\ \E r \in RoleNames :
        /\ roles[r].offline_keys = TRUE
        /\ Len(roles[r].keys) = 2
        /\ metadata[r].keyids = KeyIdsOf(roles[r])

\* ------------------------------------------- connection failures (C19)

\* C19: whenever a request could not connect, at the precheck or at the
\* submission, the command has ended with a ClickException and its message.
C19_ConnectionFailureReported ==
    \A i \in 1..Len(requests) :
        ~requests[i].connected => Aborted

\* ---------------------------------------------------- termination (C20)

\* The command has ended: it returned, or an exception ended it.
Ended == exit # "none"

\* The command waits at the path prompt of _configure_keys, and at the
\* "Configuration correct for <role>?" prompt of the review.
AsksForKey == Running /\ pc = "key"

AsksToConfirm == Running /\ stage = "step3" /\ pc = "confirm"

\* A pass of the loop of _configure_keys that accepts the key typed.
KeyIsAccepted == AsksForKey /\ Len(roles'[cur].keys) > Len(roles[cur].keys)

\* A pass of that loop that finds the key duplicated.
KeyIsDuplicate == AsksForKey /\ reported' = "Failed: Key is duplicated."

\* "Try again?" answered yes.
ImportIsRetried == Running /\ pc = "try_again" /\ pc' = "key"

\* "Configuration correct for <role>?" answered yes, and answered no.
SummaryIsAccepted == AsksToConfirm /\ pc' # "expiration"

SummaryIsDeclined == AsksToConfirm /\ pc' = "expiration"

\* The operator who, asked for a key again and again, eventually types one
\* that is accepted, and, shown summaries again and again, eventually
\* accepts one.
CooperativeOperator ==
    /\ []<>AsksForKey => []<><<KeyIsAccepted>>_vars
    /\ []<>AsksToConfirm => []<><<SummaryIsAccepted>>_vars

\* The ceremony with an operator who answers every prompt and a network
\* call that comes back (answered, or failed to connect).
LiveSpec == Spec /\ WF_vars(Next)

====
